---- MODULE Spec2Model ----
(***************************************************************************)
(* A model of pysparkling/context.py: the H2OContext facade, the methods   *)
(* it attaches to H2OFrame, and the type-directed dispatch of              *)
(* as_h2o_frame.  The file is Python 2 code (print statement, long).       *)
(***************************************************************************)
EXTENDS Integers, Sequences, FiniteSets, TLC

\* ---------------------------------------------------------------- bounds
\* sys.maxint scaled down: an int holds 0..MaxInt, a long holds any value.
MaxInt == 1
\* Longest RDD handed to as_h2o_frame.
MaxLen == 2
\* Most H2OContext objects constructed in one run.
MaxCtx == 2
\* Most handles built by from_java_h2o_frame in one run.
MaxFrames == 1
\* Most warnings recorded in one run.
MaxWarn == 2

\* ------------------------------------------------------- input universes
SparkContexts == {1}
Confs == {0, 1}            \* 0 stands for conf = None
FrameIds == {1, 2}         \* keys of frames resident in the H2O cluster
NativeFrames == {1, 2}     \* Java H2OFrame objects behind the gateway

VARIABLES
    contexts,          \* sequence of H2OContext objects, each attribute -> value
    origin,            \* who constructed contexts[i]: "ctor" or "getOrCreate"
    hc,                \* the context captured by the methods patched onto H2OFrame, 0 if unpatched
    jarLoaded,         \* Initializer.load_sparkling_jar has run
    warnings,          \* number of warnings emitted
    jhcStopCalls,      \* calls of the native context's stop
    asDataFrameCalls,  \* calls of the native asDataFrame, as <<native frame, sql context>>
    frames,            \* sequence of H2OFrame handles, each attribute -> value
    lookups,           \* lookups[h]: remote asH2OFrame(frame_id) calls made for handle h
    returned,          \* returned[h]: native objects get_java_h2o_frame has returned for h
    last,              \* the last call of the lifecycle API, its argument and its outcome
    dataframe,         \* the argument of the last dispatch call, if it was as_h2o_frame
    vec,               \* the argument of the last dispatch call, if it was determine_java_vec_type
    res                \* the outcome of the last dispatch call

vars == <<contexts, origin, hc, jarLoaded, warnings, jhcStopCalls, asDataFrameCalls,
          frames, lookups, returned, last, dataframe, vec, res>>

lifecycleVars == <<contexts, origin, hc, jarLoaded, warnings, jhcStopCalls,
                   asDataFrameCalls, frames, lookups, returned, last>>

dispatchVars == <<dataframe, vec, res>>

\* ------------------------------------------------------ Python 2 values
\* An RDD element is its type and a value; values of one type are ordered by v.
Elements ==
    [t : {"str"}, v : 0..1] \cup [t : {"bool"}, v : 0..1]
    \cup [t : {"int"}, v : 0..MaxInt] \cup [t : {"long"}, v : 0..(MaxInt + 1)]
    \cup [t : {"float"}, v : 0..1] \cup [t : {"tuple"}, v : {0}]

SeqsUpTo(S, n) == UNION {[1..k -> S] : k \in 0..n}

\* The arguments of as_h2o_frame: a DataFrame, an RDD, or anything else.
Inputs ==
    {[kind |-> "DataFrame", elems |-> <<>>], [kind |-> "list", elems |-> <<>>]}
    \cup {[kind |-> "RDD", elems |-> s] : s \in SeqsUpTo(Elements, MaxLen)}

\* isinstance(e, classes): bool is a subclass of int, long is not.
isinstance(e, classes) ==
    \/ e.t \in classes
    \/ e.t = "bool" /\ "int" \in classes

\* Python 2 ordering of mixed values: numbers sort before every other type,
\* the other types sort by type name ("str" < "tuple").
Rank(e) ==
    IF e.t \in {"bool", "int", "long", "float"} THEN 0
    ELSE IF e.t = "str" THEN 1 ELSE 2

Greater(a, b) ==
    \/ Rank(a) > Rank(b)
    \/ Rank(a) = Rank(b) /\ a.v > b.v

\* max(a, b) keeps a unless b is greater.
PyMax(a, b) == IF Greater(b, a) THEN b ELSE a

RECURSIVE Reduce(_, _)
Reduce(acc, s) == IF s = <<>> THEN acc ELSE Reduce(PyMax(acc, Head(s)), Tail(s))

\* rdd.max() is rdd.reduce(max); only evaluated on a non-empty RDD here.
rdd_max(rdd) == Reduce(Head(rdd.elems), Tail(rdd.elems))

rdd_isEmpty(rdd) == rdd.elems = <<>>

NoElement == [t |-> "none", v |-> 0]

\* rdd.first() raises ValueError("RDD is empty") on an empty RDD.
rdd_first(rdd) ==
    IF rdd_isEmpty(rdd)
    THEN [exc |-> "ValueError", msg |-> "RDD is empty", val |-> NoElement]
    ELSE [exc |-> "", msg |-> "", val |-> Head(rdd.elems)]

\* ------------------------------------------------------ module functions
\* _is_of_simple_type answering False for an empty RDD instead of raising.
_is_of_simple_type_noraise(rdd) ==
    IF rdd.kind # "RDD"
    THEN [exc |-> "ValueError", msg |-> "rdd is not of type pyspark.rdd.RDD", val |-> FALSE]
    ELSE IF rdd_isEmpty(rdd)
         THEN [exc |-> "", msg |-> "", val |-> FALSE]
         ELSE [exc |-> "", msg |-> "",
               val |-> isinstance(rdd_first(rdd).val, {"str", "int", "bool", "long", "float"})]

_is_of_simple_type(rdd) ==
    IF rdd.kind # "RDD"
    THEN [exc |-> "ValueError", msg |-> "rdd is not of type pyspark.rdd.RDD", val |-> FALSE]
    ELSE LET f == rdd_first(rdd) IN
         IF f.exc # ""
         THEN [exc |-> f.exc, msg |-> f.msg, val |-> FALSE]
         ELSE [exc |-> "", msg |-> "",
               val |-> isinstance(f.val, {"str", "int", "bool", "long", "float"})]

_get_first(rdd) ==
    IF rdd_isEmpty(rdd)
    THEN [exc |-> "ValueError", msg |-> "rdd is empty", val |-> NoElement]
    ELSE rdd_first(rdd)

\* The outcome of a call that hands the work to one converter of
\* pysparkling.conversions and returns what the converter returned.
Converted(conv) == [calls |-> <<conv>>, exc |-> "", msg |-> "", ret |-> conv]
Raised(exc, msg) == [calls |-> <<>>, exc |-> exc, msg |-> msg, ret |-> ""]
ReturnedNone == [calls |-> <<>>, exc |-> "", msg |-> "", ret |-> "None"]

Converters ==
    {"_as_h2o_frame_from_dataframe", "_as_h2o_frame_from_RDD_String",
     "_as_h2o_frame_from_RDD_Bool", "_as_h2o_frame_from_RDD_Long",
     "_as_h2o_frame_from_RDD_Float", "_as_h2o_frame_from_complex_type"}

\* as_h2o_frame with the int test moved before the bool test.
as_h2o_frame_int_first(df) ==
    IF df.kind = "DataFrame" THEN Converted("_as_h2o_frame_from_dataframe")
    ELSE IF df.kind = "RDD" THEN
        LET s == _is_of_simple_type(df) IN
        IF s.exc # "" THEN Raised(s.exc, s.msg)
        ELSE IF s.val THEN
            LET f == _get_first(df) IN
            IF f.exc # "" THEN Raised(f.exc, f.msg)
            ELSE IF isinstance(f.val, {"str"})
                 THEN Converted("_as_h2o_frame_from_RDD_String")
            ELSE IF isinstance(rdd_max(df), {"int"})
                 THEN Converted("_as_h2o_frame_from_RDD_Long")
            ELSE IF isinstance(f.val, {"bool"})
                 THEN Converted("_as_h2o_frame_from_RDD_Bool")
            ELSE IF isinstance(f.val, {"float"})
                 THEN Converted("_as_h2o_frame_from_RDD_Float")
            ELSE IF isinstance(rdd_max(df), {"long"})
                 THEN Raised("ValueError", "Numbers in RDD Too Big")
            ELSE ReturnedNone
        ELSE Converted("_as_h2o_frame_from_complex_type")
    ELSE ReturnedNone

\* as_h2o_frame without its last branch, the range error.
as_h2o_frame_no_range_error(df) ==
    IF df.kind = "DataFrame" THEN Converted("_as_h2o_frame_from_dataframe")
    ELSE IF df.kind = "RDD" THEN
        LET s == _is_of_simple_type(df) IN
        IF s.exc # "" THEN Raised(s.exc, s.msg)
        ELSE IF s.val THEN
            LET f == _get_first(df) IN
            IF f.exc # "" THEN Raised(f.exc, f.msg)
            ELSE IF isinstance(f.val, {"str"})
                 THEN Converted("_as_h2o_frame_from_RDD_String")
            ELSE IF isinstance(f.val, {"bool"})
                 THEN Converted("_as_h2o_frame_from_RDD_Bool")
            ELSE IF isinstance(rdd_max(df), {"int"})
                 THEN Converted("_as_h2o_frame_from_RDD_Long")
            ELSE IF isinstance(f.val, {"float"})
                 THEN Converted("_as_h2o_frame_from_RDD_Float")
            ELSE ReturnedNone
        ELSE Converted("_as_h2o_frame_from_complex_type")
    ELSE ReturnedNone

as_h2o_frame(df) ==
    IF df.kind = "DataFrame" THEN Converted("_as_h2o_frame_from_dataframe")
    ELSE IF df.kind = "RDD" THEN
        LET s == _is_of_simple_type(df) IN
        IF s.exc # "" THEN Raised(s.exc, s.msg)
        ELSE IF s.val THEN
            LET f == _get_first(df) IN
            IF f.exc # "" THEN Raised(f.exc, f.msg)
            ELSE IF isinstance(f.val, {"str"})
                 THEN Converted("_as_h2o_frame_from_RDD_String")
            ELSE IF isinstance(f.val, {"bool"})
                 THEN Converted("_as_h2o_frame_from_RDD_Bool")
            ELSE IF isinstance(rdd_max(df), {"int"})
                 THEN Converted("_as_h2o_frame_from_RDD_Long")
            ELSE IF isinstance(f.val, {"float"})
                 THEN Converted("_as_h2o_frame_from_RDD_Float")
            ELSE IF isinstance(rdd_max(df), {"long"})
                 THEN Raised("ValueError", "Numbers in RDD Too Big")
            ELSE ReturnedNone
        ELSE Converted("_as_h2o_frame_from_complex_type")
    ELSE ReturnedNone

\* The flags a native column (Vec) answers.
Vecs == [isCategorical : BOOLEAN, isUUID : BOOLEAN, isString : BOOLEAN,
         isInt : BOOLEAN, isTime : BOOLEAN]

\* determine_java_vec_type asking isTime before isInt.
determine_java_vec_type_time_first(v) ==
    IF v.isCategorical THEN "enum"
    ELSE IF v.isUUID THEN "uuid"
    ELSE IF v.isString THEN "string"
    ELSE IF v.isTime THEN "time"
    ELSE IF v.isInt THEN "int"
    ELSE "real"

determine_java_vec_type(v) ==
    IF v.isCategorical THEN "enum"
    ELSE IF v.isUUID THEN "uuid"
    ELSE IF v.isString THEN "string"
    ELSE IF v.isInt THEN (IF v.isTime THEN "time" ELSE "int")
    ELSE "real"

\* --------------------------------------------------------- H2OContext
hasattr(obj, a) == a \in DOMAIN obj

\* __do_init: the attributes a freshly constructed context holds, each
\* derived from the Spark context it was given.
do_init(spark_context) ==
    ("_sc" :> <<"SparkContext", spark_context>>)
    @@ ("_jsql_context" :> <<"JavaSQLContext", spark_context>>)
    @@ ("_sql_context" :> <<"SQLContext", spark_context>>)
    @@ ("_jsc" :> <<"JavaSparkContext", spark_context>>)
    @@ ("_jvm" :> <<"JVMView", spark_context>>)
    @@ ("_gw" :> <<"JavaGateway", spark_context>>)

\* H2OContext(spark_context): __do_init, then the three methods are patched
\* onto H2OFrame closing over the new object, then the jar is loaded.
Construct(spark_context, who) ==
    /\ contexts' = Append(contexts, do_init(spark_context))
    /\ origin' = Append(origin, who)
    /\ hc' = Len(contexts) + 1
    /\ jarLoaded' = TRUE

NoValue == <<"", 0>>
None == <<"None", 0>>

H2OContext_init(spark_context) ==
    /\ Len(contexts) < MaxCtx
    /\ Construct(spark_context, "ctor")
    /\ last' = [op |-> "__init__", arg |-> spark_context, exc |-> "", msg |-> "",
                ret |-> <<"H2OContext", Len(contexts) + 1>>]
    /\ UNCHANGED <<warnings, jhcStopCalls, asDataFrameCalls, frames, lookups, returned>>
    /\ UNCHANGED dispatchVars

\* getOrCreate constructs a context, then reads the unbound name self.
getOrCreate(spark_context, conf) ==
    /\ Len(contexts) < MaxCtx
    /\ Construct(spark_context, "getOrCreate")
    /\ last' = [op |-> "getOrCreate", arg |-> spark_context,
                exc |-> "NameError", msg |-> "self", ret |-> NoValue]
    /\ UNCHANGED <<warnings, jhcStopCalls, asDataFrameCalls, frames, lookups, returned>>
    /\ UNCHANGED dispatchVars

\* start reads the unbound name jvm in its first statement.
start(self) ==
    /\ self \in 1..Len(contexts)
    /\ last' = [op |-> "start", arg |-> self,
                exc |-> "NameError", msg |-> "jvm", ret |-> NoValue]
    /\ UNCHANGED <<contexts, origin, hc, jarLoaded, warnings, jhcStopCalls,
                   asDataFrameCalls, frames, lookups, returned>>
    /\ UNCHANGED dispatchVars

\* stop with the commented-out self._jhc.stop(False) put back.
stop_calling_native(self) ==
    /\ self \in 1..Len(contexts)
    /\ warnings < MaxWarn
    /\ warnings' = warnings + 1
    /\ IF hasattr(contexts[self], "_jhc")
       THEN /\ jhcStopCalls' = jhcStopCalls + 1
            /\ last' = [op |-> "stop", arg |-> self, exc |-> "", msg |-> "", ret |-> None]
       ELSE /\ jhcStopCalls' = jhcStopCalls
            /\ last' = [op |-> "stop", arg |-> self, exc |-> "AttributeError", msg |-> "_jhc",
                        ret |-> NoValue]
    /\ UNCHANGED <<contexts, origin, hc, jarLoaded, asDataFrameCalls, frames,
                   lookups, returned>>
    /\ UNCHANGED dispatchVars

stop(self) ==
    /\ self \in 1..Len(contexts)
    /\ warnings < MaxWarn
    /\ warnings' = warnings + 1
    /\ last' = [op |-> "stop", arg |-> self, exc |-> "", msg |-> "", ret |-> None]
    /\ UNCHANGED <<contexts, origin, hc, jarLoaded, jhcStopCalls, asDataFrameCalls,
                   frames, lookups, returned>>
    /\ UNCHANGED dispatchVars

\* ----------------------------------------- methods patched onto H2OFrame
\* A handle obtained from H2OFrame.get_frame(id): only its frame_id is set.
PlainFrame(id) == ("frame_id" :> <<"str", id>>)

\* Key.toString(): the key's name as a string.
toString(key) == <<"str", key[2]>>

from_java_h2o_frame(h2o_frame, h2o_frame_id) ==
    /\ hc # 0
    /\ Len(frames) < Cardinality(FrameIds) + MaxFrames
    /\ LET fr == ("frame_id" :> toString(h2o_frame_id))
                 @@ ("_java_frame" :> h2o_frame)
                 @@ ("_backed_by_java_obj" :> <<"bool", 1>>)
       IN /\ frames' = Append(frames, fr)
          /\ lookups' = Append(lookups, 0)
          /\ returned' = Append(returned, {})
          /\ last' = [op |-> "from_java_h2o_frame", arg |-> h2o_frame_id[2],
                      exc |-> "", msg |-> "",
                      ret |-> <<"H2OFrame", Len(frames) + 1>>]
    /\ UNCHANGED <<contexts, origin, hc, jarLoaded, warnings, jhcStopCalls,
                   asDataFrameCalls>>
    /\ UNCHANGED dispatchVars

\* What get_java_h2o_frame does for a handle: the cached object if the handle
\* has one, otherwise hc._jhc.asH2OFrame(self.frame_id), which answers
\* `remote`; nothing is stored on the handle.
resolve_java_frame(fr, remote) ==
    IF hasattr(fr, "_java_frame")
    THEN [exc |-> "", msg |-> "", ret |-> fr["_java_frame"], looked |-> 0]
    ELSE IF ~hasattr(contexts[hc], "_jhc")
         THEN [exc |-> "AttributeError", msg |-> "_jhc", ret |-> NoValue, looked |-> 0]
         ELSE [exc |-> "", msg |-> "", ret |-> remote, looked |-> 1]

\* The bookkeeping of one resolution of handle h with outcome o.
Resolved(h, o) ==
    /\ lookups' = [lookups EXCEPT ![h] = @ + o.looked]
    /\ returned' = [returned EXCEPT ![h] = IF o.exc = "" THEN @ \cup {o.ret} ELSE @]

get_java_h2o_frame(self) ==
    /\ hc # 0
    /\ self \in 1..Len(frames)
    /\ \E n \in NativeFrames :
          LET o == resolve_java_frame(frames[self], <<"JavaH2OFrame", n>>)
          IN /\ Resolved(self, o)
             /\ last' = [op |-> "get_java_h2o_frame", arg |-> self,
                         exc |-> o.exc, msg |-> o.msg,
                         ret |-> o.ret]
    /\ UNCHANGED <<contexts, origin, hc, jarLoaded, warnings, jhcStopCalls,
                   asDataFrameCalls, frames>>
    /\ UNCHANGED dispatchVars

\* as_spark_frame(self, h2o_frame); h2o_frame = 0 stands for an argument that
\* is not an H2OFrame.
as_spark_frame(self, h2o_frame) ==
    /\ hc # 0
    /\ self \in 1..Len(contexts)
    /\ h2o_frame \in 0..Len(frames)
    /\ IF h2o_frame = 0
       THEN /\ last' = [op |-> "as_spark_frame", arg |-> h2o_frame,
                        exc |-> "", msg |-> "", ret |-> None]
            /\ UNCHANGED <<asDataFrameCalls, lookups, returned>>
       ELSE \E n \in NativeFrames :
               LET o == resolve_java_frame(frames[h2o_frame], <<"JavaH2OFrame", n>>)
               IN /\ Resolved(h2o_frame, o)
                  /\ IF o.exc # ""
                     THEN /\ last' = [op |-> "as_spark_frame", arg |-> h2o_frame, exc |-> o.exc,
                                      msg |-> o.msg, ret |-> NoValue]
                          /\ UNCHANGED asDataFrameCalls
                     ELSE IF ~hasattr(contexts[self], "_jhc")
                     THEN /\ last' = [op |-> "as_spark_frame", arg |-> h2o_frame,
                                      exc |-> "AttributeError",
                                      msg |-> "_jhc", ret |-> NoValue]
                          /\ UNCHANGED asDataFrameCalls
                     ELSE IF ~hasattr(contexts[self], "_sqlContext")
                     THEN /\ last' = [op |-> "as_spark_frame", arg |-> h2o_frame,
                                      exc |-> "AttributeError",
                                      msg |-> "_sqlContext", ret |-> NoValue]
                          /\ UNCHANGED asDataFrameCalls
                     ELSE /\ asDataFrameCalls' =
                                Append(asDataFrameCalls,
                                       <<o.ret, contexts[self]["_sqlContext"]>>)
                          /\ last' = [op |-> "as_spark_frame", arg |-> h2o_frame,
                                      exc |-> "", msg |-> "",
                                      ret |-> <<"DataFrame",
                                                contexts[self]["_sqlContext"][2]>>]
    /\ UNCHANGED <<contexts, origin, hc, jarLoaded, warnings, jhcStopCalls, frames>>
    /\ UNCHANGED dispatchVars

\* ------------------------------------------------------- dispatch calls
NoInput == [kind |-> "none", elems |-> <<>>]
NoVec == [isCategorical |-> FALSE, isUUID |-> FALSE, isString |-> FALSE,
          isInt |-> FALSE, isTime |-> FALSE]
NoResult == [op |-> "none", calls |-> <<>>, exc |-> "", msg |-> "", ret |-> ""]

Call_as_h2o_frame(self, df) ==
    /\ res.op = "none"
    /\ self \in 1..Len(contexts)
    /\ dataframe' = df
    /\ LET o == as_h2o_frame(df)
       IN res' = [op |-> "as_h2o_frame", calls |-> o.calls, exc |-> o.exc,
                  msg |-> o.msg, ret |-> o.ret]
    /\ vec' = NoVec
    /\ UNCHANGED lifecycleVars

Call_determine_java_vec_type(v) ==
    /\ res.op = "none"
    /\ hc # 0
    /\ vec' = v
    /\ res' = [op |-> "determine_java_vec_type", calls |-> <<>>, exc |-> "",
               msg |-> "", ret |-> determine_java_vec_type(v)]
    /\ dataframe' = NoInput
    /\ UNCHANGED lifecycleVars

\* ------------------------------------------------------- specifications
\* The process before any context exists; the frames of FrameIds are resident
\* in the cluster and the caller holds a plain handle to each.
Init ==
    /\ contexts = <<>>
    /\ origin = <<>>
    /\ hc = 0
    /\ jarLoaded = FALSE
    /\ warnings = 0
    /\ jhcStopCalls = 0
    /\ asDataFrameCalls = <<>>
    /\ frames = [i \in 1..Cardinality(FrameIds) |-> PlainFrame(i)]
    /\ lookups = [i \in 1..Cardinality(FrameIds) |-> 0]
    /\ returned = [i \in 1..Cardinality(FrameIds) |-> {}]
    /\ last = [op |-> "none", arg |-> 0, exc |-> "", msg |-> "", ret |-> NoValue]
    /\ dataframe = NoInput
    /\ vec = NoVec
    /\ res = NoResult

Next ==
    \/ \E sc \in SparkContexts : H2OContext_init(sc)
    \/ \E sc \in SparkContexts, conf \in Confs : getOrCreate(sc, conf)
    \/ \E c \in 1..Len(contexts) : start(c)
    \/ \E c \in 1..Len(contexts) : stop(c)
    \/ \E n \in NativeFrames, id \in FrameIds :
          from_java_h2o_frame(<<"JavaH2OFrame", n>>, <<"Key", id>>)
    \/ \E h \in 1..Len(frames) : get_java_h2o_frame(h)
    \/ \E c \in 1..Len(contexts), h \in 0..Len(frames) : as_spark_frame(c, h)

Spec == Init /\ [][Next]_vars

\* Dispatch is checked on a context that H2OContext(sc) has constructed.  A
\* run makes one dispatch call: the calls share no state, none reads what
\* another left behind.
InitDispatch ==
    /\ \E sc \in SparkContexts : contexts = <<do_init(sc)>>
    /\ origin = <<"ctor">>
    /\ hc = 1
    /\ jarLoaded = TRUE
    /\ warnings = 0
    /\ jhcStopCalls = 0
    /\ asDataFrameCalls = <<>>
    /\ frames = [i \in 1..Cardinality(FrameIds) |-> PlainFrame(i)]
    /\ lookups = [i \in 1..Cardinality(FrameIds) |-> 0]
    /\ returned = [i \in 1..Cardinality(FrameIds) |-> {}]
    /\ last = [op |-> "__init__", arg |-> contexts[1]["_sc"][2],
               exc |-> "", msg |-> "", ret |-> <<"H2OContext", 1>>]
    /\ dataframe = NoInput
    /\ vec = NoVec
    /\ res = NoResult

NextDispatch ==
    \/ \E df \in Inputs : Call_as_h2o_frame(1, df)
    \/ \E v \in Vecs : Call_determine_java_vec_type(v)

SpecDispatch == InitDispatch /\ [][NextDispatch]_vars

TypeOK ==
    /\ Len(contexts) <= MaxCtx
    /\ hc = Len(contexts)
    /\ warnings \in 0..MaxWarn
    /\ Len(lookups) = Len(frames)
    /\ Len(returned) = Len(frames)

\* ============================================================== claims
ConverterOf(t) ==
    CASE t = "str" -> "_as_h2o_frame_from_RDD_String"
      [] t = "bool" -> "_as_h2o_frame_from_RDD_Bool"
      [] t = "int" -> "_as_h2o_frame_from_RDD_Long"
      [] t = "float" -> "_as_h2o_frame_from_RDD_Float"

RDDCall == res.op = "as_h2o_frame" /\ dataframe.kind = "RDD"
NonEmpty == dataframe.elems # <<>>
AllOfTypes(T) == \A i \in DOMAIN dataframe.elems : dataframe.elems[i].t \in T
MaxValue == rdd_max(dataframe).v
TooBig == res.exc = "ValueError" /\ res.msg = "Numbers in RDD Too Big"

\* C1: every getOrCreate call returns the analytics context, the same object
\* each time, and the getOrCreate calls of one process construct at most one
\* context object between them.
C1_GetOrCreateSingleton ==
    /\ Cardinality({i \in DOMAIN origin : origin[i] = "getOrCreate"}) <= 1
    /\ last.op = "getOrCreate" => (last.exc = "" /\ last.ret[1] = "H2OContext")

\* C2: as_h2o_frame on a non-empty RDD whose elements are all str, all bool,
\* all int or all float calls the converter of that type once, calls no other
\* converter and returns that converter's result.
C2_PrimitiveDispatch ==
    \A t \in {"str", "bool", "int", "float"} :
        (RDDCall /\ NonEmpty /\ AllOfTypes({t}))
            => /\ res.calls = <<ConverterOf(t)>>
               /\ res.exc = ""
               /\ res.ret = ConverterOf(t)

C2_Witness ==
    /\ RDDCall /\ Len(dataframe.elems) = 2 /\ AllOfTypes({"float"})
    /\ res.calls = <<"_as_h2o_frame_from_RDD_Float">>

\* C3: as_h2o_frame on an empty RDD raises ValueError and has called no
\* converter.
C3_EmptyRDDFails ==
    (RDDCall /\ ~NonEmpty) => (res.exc = "ValueError" /\ res.calls = <<>>)

C3_Witness == RDDCall /\ ~NonEmpty /\ res.exc = "ValueError"

\* C4: as_h2o_frame on an RDD of longs whose maximum is above the int range
\* raises the range error and calls no converter.
C4_BigLongRejected ==
    (RDDCall /\ NonEmpty /\ AllOfTypes({"long"}) /\ MaxValue > MaxInt)
        => (TooBig /\ res.calls = <<>>)

C4_Witness ==
    /\ RDDCall /\ Len(dataframe.elems) = 2 /\ AllOfTypes({"long"})
    /\ dataframe.elems[1].v <= MaxInt /\ MaxValue > MaxInt
    /\ TooBig

\* C5: determine_java_vec_type answers enum for a categorical column, else
\* uuid for a UUID column, else string for a string column, else time for an
\* integer time column, else int for an integer column, else real; a time
\* column that is not an integer column is real.
C5_VecTypeCascade ==
    res.op = "determine_java_vec_type" =>
        /\ res.ret \in {"enum", "uuid", "string", "time", "int", "real"}
        /\ vec.isCategorical => res.ret = "enum"
        /\ (~vec.isCategorical /\ vec.isUUID) => res.ret = "uuid"
        /\ (~vec.isCategorical /\ ~vec.isUUID /\ vec.isString) => res.ret = "string"
        /\ (~vec.isCategorical /\ ~vec.isUUID /\ ~vec.isString /\ vec.isInt /\ vec.isTime)
               => res.ret = "time"
        /\ (~vec.isCategorical /\ ~vec.isUUID /\ ~vec.isString /\ vec.isInt /\ ~vec.isTime)
               => res.ret = "int"
        /\ (~vec.isCategorical /\ ~vec.isUUID /\ ~vec.isString /\ ~vec.isInt)
               => res.ret = "real"

C5_Witness ==
    /\ res.op = "determine_java_vec_type"
    /\ vec.isTime /\ ~vec.isInt /\ ~vec.isCategorical /\ ~vec.isUUID /\ ~vec.isString
    /\ res.ret = "real"

\* C6: a stop call does not raise, changes no field of any context, makes no
\* call on the native context and emits exactly one warning.
C6_StopOnlyWarns ==
    [][last'.op = "stop" =>
          /\ last'.exc = ""
          /\ contexts' = contexts
          /\ jhcStopCalls' = jhcStopCalls
          /\ asDataFrameCalls' = asDataFrameCalls
          /\ <<hc, frames, lookups, returned>>' = <<hc, frames, lookups, returned>>
          /\ warnings' = warnings + 1]_vars

C6_Witness ==
    /\ last.op = "stop" /\ last.exc = ""
    /\ warnings = 2 /\ Len(contexts) = 2 /\ jhcStopCalls = 0

\* C7: as_spark_frame given an H2OFrame, on a constructed context, calls the
\* native asDataFrame once with the frame's native object and the context's
\* SQL context and returns a DataFrame bound to it, without raising.
C7_AsSparkFrameConverts ==
    (last.op = "as_spark_frame" /\ last.arg # 0)
        => /\ last.exc = ""
           /\ last.ret[1] = "DataFrame"
           /\ Len(asDataFrameCalls) >= 1

\* C8: every get_java_h2o_frame call on one handle returns the same native
\* object, with at most one remote lookup per handle and none for a handle
\* built by from_java_h2o_frame, which returns the object it was given.
C8_ResolvedOnceAndCached ==
    /\ last.op = "get_java_h2o_frame" => last.exc = ""
    /\ \A h \in DOMAIN frames :
          /\ Cardinality(returned[h]) <= 1
          /\ lookups[h] <= 1
          /\ hasattr(frames[h], "_backed_by_java_obj")
                => (lookups[h] = 0 /\ returned[h] \subseteq {frames[h]["_java_frame"]})

\* C9: on a non-empty RDD of integers, int or long, as_h2o_frame calls the
\* Long converter when the maximum is within the int range and raises the
\* range error only when the maximum is above it.
C9_RangeDecidedByValue ==
    (RDDCall /\ NonEmpty /\ AllOfTypes({"int", "long"}))
        => IF MaxValue <= MaxInt
           THEN res.calls = <<"_as_h2o_frame_from_RDD_Long">> /\ res.exc = ""
           ELSE TooBig /\ res.calls = <<>>

\* C10: on a DataFrame or a non-empty RDD, as_h2o_frame either calls exactly
\* one converter and returns its result or raises ValueError; it never returns
\* None without having called a converter.
C10_DispatchTotal ==
    (res.op = "as_h2o_frame"
       /\ (dataframe.kind = "DataFrame" \/ (dataframe.kind = "RDD" /\ NonEmpty)))
        => \/ /\ Len(res.calls) = 1 /\ res.calls[1] \in Converters
              /\ res.exc = "" /\ res.ret = res.calls[1]
           \/ res.exc = "ValueError" /\ res.calls = <<>>

====
